---- MODULE Spec2Model ----
(***************************************************************************)
(* CustomStyleInterface (src/custom-style-interface.js): the registry of   *)
(* document-level styles of ShadyCSS.  The module state (readyPromise,     *)
(* whenReady, transformFn, validateFn) is shared by every registry; the    *)
(* markers __seenByShadyCSS / __processedByShadyCSS live on the provider   *)
(* objects and are therefore shared by every registry as well.             *)
(***************************************************************************)
EXTENDS Integers, Sequences, FiniteSets, TLC

\* ---------------------------------------------------------------- bounds
\* Jobs (validator invocations) that may ever be scheduled in one behaviour.
MaxJobs == 3
\* Ceiling of the (saturating) per-provider transform invocation counters.
MaxCount == 3
\* Ceiling of the (saturating) count of enqueueDocumentValidation calls.
MaxCalls == 2
\* Nesting of findStyles calls (a transform callback calling findStyles) the
\* model follows; a call that would nest deeper is cut off and noted.
MaxDepth == 3

\* ---------------------------------------------------------------- values
Null == "null"

\* Registry instances (new CustomStyleInterface()) a page may construct.
Registries == {"r1", "r2"}
\* <style> elements; each may be registered directly as a provider.
Styles == {"s1", "s2"}
\* Providers of the shape {getStyle: () => style}.
Wrappers == {"w1"}
Providers == Styles \cup Wrappers

\* Host functions that may be installed as validateCallback / transformCallback.
Validators == {"v1", "v2"}
Transforms == {"t1"}
\* Transform callbacks that call back into the registry that is iterating:
\* tFind calls registry.findStyles(), tAdd calls
\* registry.addCustomStyle(LateProvider).
ReentrantTransforms == {"tFind", "tAdd"}
\* The provider a callback registers while a pass is running.
LateProvider == "s2"

\* document.readyState values, in the order a document goes through them.
ReadyStates == <<"loading", "interactive", "complete">>

\* Attribute names of the modelled elements, and the mark of a missing one.
AttrNames == {"id", "class"}
Absent == "absent"

\* style.attributes of a <style>: a list of name/value pairs, names distinct.
StyleAttributeInputs ==
    { <<>>,
      << [name |-> "id", value |-> "a"], [name |-> "class", value |-> "b"] >> }

\* Attributes of an applied element before any copy: none, or a stale id and
\* no class.
NoAttributes == [n \in AttrNames |-> Absent]
AppliedAttributeInputs ==
    { NoAttributes, [NoAttributes EXCEPT !["id"] = "b"] }

\* style.__appliedElement: missing, or an element with its attributes.
NoElement == [exists |-> FALSE, attrs |-> NoAttributes]
AppliedElementInputs ==
    {NoElement} \cup { [exists |-> TRUE, attrs |-> a] : a \in AppliedAttributeInputs }

VARIABLES
    customStyles,   \* this['customStyles'] of each registry
    enqueued,       \* this['enqueued'] of each registry
    seen,           \* provider[SEEN_MARKER]
    processed,      \* provider[PROCESSED_MARKER]
    readyPromise,   \* module: "null", "pending" or "resolved"
    promisesCreated, \* history: readiness promises constructed (line 67)
    whenReady,      \* module: is HTMLImports.whenReady available
    transformFn,    \* module
    validateFn,     \* module
    readyState,     \* document.readyState
    listeners,      \* number of readystatechange listeners registered
    reactions,      \* callbacks given to readyPromise.then, promise pending
    microtasks,     \* promise jobs ready to run
    handed,         \* callbacks handed to HTMLImports.whenReady, not yet run
    getStyle,       \* what each wrapper's getStyle() returns now
    getStyleAdds,   \* the provider each wrapper's getStyle() registers, if any
    attributes,     \* style.attributes of each style
    appliedElement, \* style.__appliedElement of each style
    validations,    \* history: validator invocations, in order
    transformCount, \* history: transformFn invocations per provider and style
    enqueueCalls,   \* history: enqueue calls per registry before its validator ran
    skipped,        \* history: providers a findStyles pass found unresolved
    lastPass        \* what the findStyles call just made did (else NoPass)

vars == << customStyles, enqueued, seen, processed, readyPromise,
           promisesCreated, whenReady,
           transformFn, validateFn, readyState, listeners, reactions,
           microtasks, handed, getStyle, getStyleAdds, attributes,
           appliedElement, validations, transformCount, enqueueCalls, skipped, lastPass >>

\* reg: the registry iterating; visited: the entries the outermost loop went
\* through; processed, calls: the entries newly processed and the callback
\* invocations, at any nesting; depth: nesting of the running findStyles call;
\* deepest: the deepest nesting reached; overflow: a call was cut off; added:
\* the providers stored while the pass was running.
NoPass == [reg |-> Null, visited |-> <<>>, processed |-> <<>>, calls |-> <<>>,
           depth |-> 0, deepest |-> 0, overflow |-> FALSE, added |-> <<>>]

\* ---------------------------------------------------------------- helpers
Min(a, b) == IF a < b THEN a ELSE b

Range(s) == { s[i] : i \in 1..Len(s) }

RECURSIVE SumOver(_, _)
SumOver(f, S) ==
    IF S = {} THEN 0
    ELSE LET x == CHOOSE y \in S : TRUE IN f[x] + SumOver(f, S \ {x})

\* The part of the state the registry's methods read and write.
Program ==
    [ customStyles |-> customStyles, enqueued |-> enqueued, seen |-> seen,
      processed |-> processed, readyPromise |-> readyPromise,
      promisesCreated |-> promisesCreated,
      listeners |-> listeners, reactions |-> reactions,
      microtasks |-> microtasks, handed |-> handed,
      appliedElement |-> appliedElement, transformCount |-> transformCount,
      enqueueCalls |-> enqueueCalls, skipped |-> skipped,
      pass |-> NoPass ]

Commit(S) ==
    /\ customStyles' = S.customStyles
    /\ enqueued' = S.enqueued
    /\ seen' = S.seen
    /\ processed' = S.processed
    /\ readyPromise' = S.readyPromise
    /\ promisesCreated' = S.promisesCreated
    /\ listeners' = S.listeners
    /\ reactions' = S.reactions
    /\ microtasks' = S.microtasks
    /\ handed' = S.handed
    /\ appliedElement' = S.appliedElement
    /\ transformCount' = S.transformCount
    /\ enqueueCalls' = S.enqueueCalls
    /\ skipped' = S.skipped
    /\ lastPass' = S.pass

JobsScheduled(S) ==
    Len(S.handed) + Len(S.reactions) + Len(S.microtasks) + Len(validations)

\* The validator invocations made for registry r so far.
Invocations(r) ==
    Cardinality({ i \in 1..Len(validations) : validations[i].reg = r })

\* The jobs of registry r in queue q.
JobsOf(q, r) == Cardinality({ i \in 1..Len(q) : q[i].reg = r })

\* History only: a call of enqueueDocumentValidation on r made while a
\* validator is configured and before a validator ran for r.
noteEnqueueCall(S, r) ==
    IF validateFn # Null /\ Invocations(r) = 0
    THEN [S EXCEPT !.enqueueCalls[r] = Min(@ + 1, MaxCalls)]
    ELSE S

\* ---------------------------------------------------------------- methods
\* resolveFn(): settles readyPromise; its reactions become promise jobs.
resolveFn(S) ==
    IF S.readyPromise = "pending"
    THEN [S EXCEPT !.readyPromise = "resolved",
                   !.microtasks = @ \o S.reactions,
                   !.reactions = <<>>]
    ELSE S

\* Plausible bug: the listener does not test document.readyState (line 72).
readyStateListenerAnyState(S, state) == resolveFn(S)

\* Lines 71-75: the readystatechange listener, run with the new state.
readyStateListener(S, state) ==
    IF state = "complete" THEN resolveFn(S) ELSE S

\* Plausible bug: the promise is not memoized (the test of line 64 is
\* missing); every call builds a promise and, before load, a listener.
ensureReadyPromiseNoMemo(S) ==
    LET created == [S EXCEPT !.readyPromise = "pending",
                             !.promisesCreated = Min(@ + 1, MaxCount)]
    IN  IF readyState = "complete"
        THEN resolveFn(created)
        ELSE [created EXCEPT !.listeners = Min(@ + 1, MaxCount)]

\* Lines 64-77: build the shared readiness promise on first use.
ensureReadyPromise(S) ==
    IF S.readyPromise # Null THEN S
    ELSE LET created == [S EXCEPT !.readyPromise = "pending",
                                  !.promisesCreated = @ + 1]
         IN  IF readyState = "complete"
             THEN resolveFn(created)
             ELSE [created EXCEPT !.listeners = @ + 1]

\* Plausible bug: the callback is attached only while the promise is pending.
promiseThenPendingOnly(S, job) ==
    IF S.readyPromise = "resolved"
    THEN S
    ELSE [S EXCEPT !.reactions = Append(@, job)]

\* readyPromise.then(fn)
promiseThen(S, job) ==
    IF S.readyPromise = "resolved"
    THEN [S EXCEPT !.microtasks = Append(@, job)]
    ELSE [S EXCEPT !.reactions = Append(@, job)]

\* Plausible bug: the else of line 63 is missing, the promise path is taken
\* as well when whenReady exists.
scheduleValidationBothPaths(S, r) ==
    LET S1 == [S EXCEPT !.enqueued[r] = TRUE]
        job == [fn |-> validateFn, reg |-> r,
                loaded |-> (readyState = "complete")]
        S2 == IF whenReady THEN [S1 EXCEPT !.handed = Append(@, job)] ELSE S1
    IN  promiseThen(ensureReadyPromise(S2), job)

\* Lines 60-79: the flag is set and the validator scheduled.
scheduleValidation(S, r) ==
    LET S1 == [S EXCEPT !.enqueued[r] = TRUE]
        job == [fn |-> validateFn, reg |-> r,
                loaded |-> (readyState = "complete")]
    IN  IF whenReady
        THEN [S1 EXCEPT !.handed = Append(@, job)]
        ELSE promiseThen(ensureReadyPromise(S1), job)

\* Plausible bug: the flag is set before the validator is looked at.
enqueueDocumentValidationFlagFirst(S, r) ==
    IF S.enqueued[r]
    THEN noteEnqueueCall(S, r)
    ELSE IF validateFn = Null
         THEN [S EXCEPT !.enqueued[r] = TRUE]
         ELSE scheduleValidation(noteEnqueueCall(S, r), r)

\* Plausible bug: line 60 (this['enqueued'] = true) is missing.
enqueueDocumentValidationNoFlag(S, r) ==
    IF S.enqueued[r] \/ validateFn = Null
    THEN noteEnqueueCall(S, r)
    ELSE [scheduleValidation(noteEnqueueCall(S, r), r)
            EXCEPT !.enqueued[r] = S.enqueued[r]]

enqueueDocumentValidation(S, r) ==
    IF S.enqueued[r] \/ validateFn = Null
    THEN noteEnqueueCall(S, r)
    ELSE scheduleValidation(noteEnqueueCall(S, r), r)

\* Plausible bug: the seen marker is not consulted (line 85).
addCustomStyleNoSeenCheck(S, r, style) ==
    IF Len(S.customStyles[r]) <= Cardinality(Providers)
    THEN LET S1 == [S EXCEPT !.seen[style] = TRUE,
                             !.customStyles[r] = Append(@, style)]
         IN  enqueueDocumentValidation(S1, r)
    ELSE S

\* Plausible bug: the seen marker is not set (line 86 is missing).
addCustomStyleNoSeenMark(S, r, style) ==
    IF ~S.seen[style] /\ Len(S.customStyles[r]) <= Cardinality(Providers)
    THEN LET S1 == [S EXCEPT !.customStyles[r] = Append(@, style),
                             !.pass.added = IF S.pass.reg = Null THEN @
                                            ELSE Append(@, style)]
         IN  enqueueDocumentValidation(S1, r)
    ELSE S

\* Plausible bug: the provider is put in front (unshift instead of push,
\* line 88).
addCustomStylePrepends(S, r, style) ==
    IF ~S.seen[style]
    THEN LET S1 == [S EXCEPT !.seen[style] = TRUE,
                             !.customStyles[r] = <<style>> \o @,
                             !.pass.added = IF S.pass.reg = Null THEN @
                                            ELSE Append(@, style)]
         IN  enqueueDocumentValidation(S1, r)
    ELSE S

\* Lines 84-90.  The pass log notes a provider stored while a pass runs.
addCustomStyle(S, r, style) ==
    IF ~S.seen[style]
    THEN LET S1 == [S EXCEPT !.seen[style] = TRUE,
                             !.customStyles[r] = Append(@, style),
                             !.pass.added = IF S.pass.reg = Null THEN @
                                            ELSE Append(@, style)]
         IN  enqueueDocumentValidation(S1, r)
    ELSE S

\* Lines 95-103: the value getStyleForCustomStyle returns.
getStyleForCustomStyle(customStyle) ==
    IF customStyle \in Wrappers
    THEN getStyle[customStyle]
    ELSE customStyle

\* Line 98: what running customStyle.getStyle() does to the registry r: a
\* host's getStyle may itself register a provider.
getStyleForCustomStyleEffect(S, r, customStyle) ==
    IF customStyle \in Wrappers /\ getStyleAdds[customStyle] # Null
    THEN addCustomStyle(S, r, getStyleAdds[customStyle])
    ELSE S

\* Plausible bug: the attribute loop starts one index too far (line 119).
RECURSIVE copyAttributesSkipsFirst(_, _, _)
copyAttributesSkipsFirst(attrs, applied, i) ==
    IF i + 1 > Len(attrs) THEN applied
    ELSE copyAttributesSkipsFirst(attrs,
            [applied EXCEPT ![attrs[i + 1].name] = attrs[i + 1].value],
            i + 1)

\* Lines 119-122: appliedStyle.setAttribute(attr.name, attr.value) for each
\* attribute of the style, by index.
RECURSIVE copyAttributes(_, _, _)
copyAttributes(attrs, applied, i) ==
    IF i > Len(attrs) THEN applied
    ELSE copyAttributes(attrs,
                        [applied EXCEPT ![attrs[i].name] = attrs[i].value],
                        i + 1)

\* Plausible bug: the callback is given the style although an applied element
\* exists (transformFn(style), line 125).
transformTargetOriginal(S, style) == [element |-> "style", of |-> style]

\* The value transformFn receives: appliedStyle || style.
transformTarget(S, style) ==
    IF S.appliedElement[style].exists
    THEN [element |-> "applied", of |-> style]
    ELSE [element |-> "style", of |-> style]

RECURSIVE findStyles(_, _)

\* transformFn(target): the host's hook; the model records the invocation,
\* then runs what a re-entrant hook does with the registry.
callTransform(S, customStyle, style) ==
    LET S1 == [S EXCEPT !.transformCount[customStyle][style] = Min(@ + 1, MaxCount),
                        !.pass.calls = Append(@, [provider |-> customStyle,
                                                  style |-> style,
                                                  target |-> transformTarget(S, style)])]
    IN  CASE transformFn = "tFind" -> findStyles(S1, S1.pass.reg)
          [] transformFn = "tAdd" -> addCustomStyle(S1, S1.pass.reg, LateProvider)
          [] OTHER -> S1

\* Plausible bug: the processed marker is set before the style is resolved
\* (line 113 above line 112).
processCustomStyleMarksFirst(S, customStyle) ==
    LET style == getStyleForCustomStyle(customStyle)
        S0 == getStyleForCustomStyleEffect(S, S.pass.reg, customStyle)
        S1 == [S0 EXCEPT !.processed[customStyle] = TRUE]
    IN  IF style = Null THEN [S1 EXCEPT !.skipped = @ \cup {customStyle}]
        ELSE LET S2 == [S1 EXCEPT !.pass.processed =
                                     Append(@, [provider |-> customStyle,
                                                style |-> style])]
                 S3 == IF S2.appliedElement[style].exists
                       THEN [S2 EXCEPT !.appliedElement[style].attrs =
                               copyAttributes(attributes[style], @, 1)]
                       ELSE S2
             IN  IF transformFn # Null
                 THEN callTransform(S3, customStyle, style)
                 ELSE S3

\* Plausible bug: the processed marker is set after the transform callback
\* returned (line 113 below line 126).
processCustomStyleMarksAfter(S, customStyle) ==
    LET style == getStyleForCustomStyle(customStyle)
        S0 == getStyleForCustomStyleEffect(S, S.pass.reg, customStyle)
    IN  IF style = Null THEN [S0 EXCEPT !.skipped = @ \cup {customStyle}]
        ELSE LET S1 == [S0 EXCEPT !.pass.processed =
                                     Append(@, [provider |-> customStyle,
                                                style |-> style])]
                 S2 == IF S1.appliedElement[style].exists
                       THEN [S1 EXCEPT !.appliedElement[style].attrs =
                               copyAttributes(attributes[style], @, 1)]
                       ELSE S1
                 S3 == IF transformFn # Null
                       THEN callTransform(S2, customStyle, style)
                       ELSE S2
             IN  [S3 EXCEPT !.processed[customStyle] = TRUE]

\* Plausible bug: the processed marker is set only when a transform callback
\* is configured (line 113 inside the if of line 124).
processCustomStyleMarksWithHook(S, customStyle) ==
    LET style == getStyleForCustomStyle(customStyle)
        S0 == getStyleForCustomStyleEffect(S, S.pass.reg, customStyle)
    IN  IF style = Null THEN [S0 EXCEPT !.skipped = @ \cup {customStyle}]
        ELSE LET S1 == [S0 EXCEPT !.pass.processed =
                                     Append(@, [provider |-> customStyle,
                                                style |-> style])]
                 S2 == IF S1.appliedElement[style].exists
                       THEN [S1 EXCEPT !.appliedElement[style].attrs =
                               copyAttributes(attributes[style], @, 1)]
                       ELSE S1
             IN  IF transformFn # Null
                 THEN callTransform([S2 EXCEPT !.processed[customStyle] = TRUE],
                                    customStyle, style)
                 ELSE S2

\* Lines 111-127: one unprocessed entry.
processCustomStyle(S, customStyle) ==
    LET style == getStyleForCustomStyle(customStyle)
        S0 == getStyleForCustomStyleEffect(S, S.pass.reg, customStyle)
    IN  IF style = Null THEN [S0 EXCEPT !.skipped = @ \cup {customStyle}]
        ELSE LET S1 == [S0 EXCEPT !.processed[customStyle] = TRUE,
                                 !.pass.processed =
                                     Append(@, [provider |-> customStyle,
                                                style |-> style])]
                 S2 == IF S1.appliedElement[style].exists
                       THEN [S1 EXCEPT !.appliedElement[style].attrs =
                               copyAttributes(attributes[style], @, 1)]
                       ELSE S1
             IN  IF transformFn # Null
                 THEN callTransform(S2, customStyle, style)
                 ELSE S2

\* Plausible bug: the loop bound of line 106 is read once, before the loop
\* (for (let i = 0, n = cs.length; i < n; i++)).
RECURSIVE findStylesUpTo(_, _, _, _)
findStylesUpTo(S, r, i, n) ==
    IF i > n THEN S
    ELSE LET customStyle == S.customStyles[r][i]
             Sv == IF S.pass.depth = 0
                   THEN [S EXCEPT !.pass.visited = Append(@, customStyle)]
                   ELSE S
         IN  IF Sv.processed[customStyle]
             THEN findStylesUpTo(Sv, r, i + 1, n)
             ELSE findStylesUpTo(processCustomStyle(Sv, customStyle), r, i + 1, n)

findStylesFromFixedLength(S, r, i) ==
    findStylesUpTo(S, r, i, Len(S.customStyles[r]))

\* Lines 106-128: the loop of findStyles from index i (1-based here); the
\* length of the sequence is read again before every entry.
RECURSIVE findStylesFrom(_, _, _)
findStylesFrom(S, r, i) ==
    IF i > Len(S.customStyles[r]) THEN S
    ELSE LET customStyle == S.customStyles[r][i]
             Sv == IF S.pass.depth = 0
                   THEN [S EXCEPT !.pass.visited = Append(@, customStyle)]
                   ELSE S
         IN  IF Sv.processed[customStyle]
             THEN findStylesFrom(Sv, r, i + 1)
             ELSE findStylesFrom(processCustomStyle(Sv, customStyle), r, i + 1)

\* Plausible bug: the loop of line 106 runs from the last entry to the first.
RECURSIVE findStylesDownFrom(_, _, _)
findStylesDownFrom(S, r, i) ==
    IF i < 1 THEN S
    ELSE LET customStyle == S.customStyles[r][i]
             Sv == [S EXCEPT !.pass.visited = Append(@, customStyle)]
         IN  IF Sv.processed[customStyle]
             THEN findStylesDownFrom(Sv, r, i - 1)
             ELSE findStylesDownFrom(processCustomStyle(Sv, customStyle), r, i - 1)

findStylesBackwards(S, r) ==
    findStylesDownFrom([S EXCEPT !.pass = [NoPass EXCEPT !.reg = r]], r,
                       Len(S.customStyles[r]))

\* Lines 104-129.  A call made by the host starts the log of the pass; a call
\* made by a transform callback of a running pass is nested in it.
findStyles(S, r) ==
    IF S.pass.reg = Null
    THEN findStylesFrom([S EXCEPT !.pass = [NoPass EXCEPT !.reg = r]], r, 1)
    ELSE IF S.pass.depth >= MaxDepth
         THEN [S EXCEPT !.pass.overflow = TRUE]
         ELSE LET inner == findStylesFrom(
                             [S EXCEPT !.pass.depth = @ + 1,
                                       !.pass.deepest = IF @ > S.pass.depth
                                                        THEN @
                                                        ELSE S.pass.depth + 1],
                             r, 1)
              IN  [inner EXCEPT !.pass.depth = S.pass.depth]

\* ---------------------------------------------------------------- actions
HostVars == << whenReady, readyState, getStyle, getStyleAdds, attributes >>

\* registry.enqueueDocumentValidation()
EnqueueDocumentValidation(r) ==
    /\ JobsScheduled(Program) < MaxJobs
    /\ Commit(enqueueDocumentValidation(Program, r))
    /\ UNCHANGED << HostVars, transformFn, validateFn, validations >>

\* registry.addCustomStyle(style)
AddCustomStyle(r, style) ==
    /\ JobsScheduled(Program) < MaxJobs
    /\ Commit(addCustomStyle(Program, r, style))
    /\ UNCHANGED << HostVars, transformFn, validateFn, validations >>

\* registry.findStyles()
FindStyles(r) ==
    /\ Commit(findStyles(Program, r))
    /\ UNCHANGED << HostVars, transformFn, validateFn, validations >>

\* registry.transformCallback = fn
SetTransformCallback(fn) ==
    /\ transformFn' = fn
    /\ Commit(Program)
    /\ UNCHANGED << HostVars, validateFn, validations >>

\* Plausible bug: clearing the callback drops the validations not yet run.
SetValidateCallbackCancels(fn) ==
    /\ validateFn' = fn
    /\ Commit(IF fn = Null
              THEN [Program EXCEPT !.handed = <<>>, !.reactions = <<>>,
                                   !.microtasks = <<>>]
              ELSE Program)
    /\ UNCHANGED << HostVars, transformFn, validations >>

\* registry.validateCallback = fn
SetValidateCallback(fn) ==
    /\ validateFn' = fn
    /\ Commit(Program)
    /\ UNCHANGED << HostVars, transformFn, validations >>

\* A readystatechange event: the document moves to its next readiness state
\* (or the event is dispatched again in the same state); the listener of
\* lines 71-75 runs if it was registered.
ReadyStateChange ==
    \E i \in 1..Len(ReadyStates), j \in 1..Len(ReadyStates) :
        /\ readyState = ReadyStates[i]
        /\ j \in {i, i + 1}
        /\ readyState' = ReadyStates[j]
        /\ Commit(IF listeners > 0
                  THEN readyStateListener(Program, ReadyStates[j])
                  ELSE Program)
        /\ UNCHANGED << whenReady, getStyle, getStyleAdds, attributes,
                        transformFn, validateFn, validations >>

\* Plausible bug: the callback configured when readiness occurs is invoked
\* (readyPromise.then(() => validateFn())).
invokeValidatorCurrent(job, via) ==
    validations' = Append(validations,
                          [fn |-> validateFn, reg |-> job.reg,
                           loaded |-> job.loaded, via |-> via,
                           stored |-> Len(customStyles[job.reg]),
                           current |-> validateFn])

\* The validator is invoked: the model records which one, for which registry
\* and by which path, how many styles the registry stored and which validate
\* callback was configured at that moment.
invokeValidator(job, via) ==
    validations' = Append(validations,
                          [fn |-> job.fn, reg |-> job.reg,
                           loaded |-> job.loaded, via |-> via,
                           stored |-> Len(customStyles[job.reg]),
                           current |-> validateFn])

\* Plausible bug: the flag is cleared when the validator runs.
RunMicrotaskClearsFlag ==
    /\ microtasks # <<>>
    /\ invokeValidator(Head(microtasks), "promise")
    /\ Commit([Program EXCEPT !.microtasks = Tail(@),
                              !.enqueued[Head(microtasks).reg] = FALSE])
    /\ UNCHANGED << HostVars, transformFn, validateFn >>

\* The promise job queued by readyPromise.then(validateFn) runs.
RunMicrotask ==
    /\ microtasks # <<>>
    /\ invokeValidator(Head(microtasks), "promise")
    /\ Commit([Program EXCEPT !.microtasks = Tail(@)])
    /\ UNCHANGED << HostVars, transformFn, validateFn >>

\* HTMLImports.whenReady invokes a callback it was handed.
WhenReadyFire ==
    /\ handed # <<>>
    /\ invokeValidator(Head(handed), "whenReady")
    /\ Commit([Program EXCEPT !.handed = Tail(@)])
    /\ UNCHANGED << HostVars, transformFn, validateFn >>

\* The host changes what a wrapper's getStyle() returns.
SetGetStyle(w, s) ==
    /\ getStyle' = [getStyle EXCEPT ![w] = s]
    /\ Commit(Program)
    /\ UNCHANGED << whenReady, readyState, getStyleAdds, attributes,
                    transformFn, validateFn, validations >>

\* The host changes what a wrapper's getStyle() does besides returning: it
\* registers provider p, or (Null) nothing.
SetGetStyleAdds(w, p) ==
    /\ getStyleAdds' = [getStyleAdds EXCEPT ![w] = p]
    /\ Commit(Program)
    /\ UNCHANGED << whenReady, readyState, getStyle, attributes, transformFn,
                    validateFn, validations >>

\* registry.getStyleForCustomStyle(provider), called by the host.
GetStyleForCustomStyle(r, p) ==
    /\ JobsScheduled(Program) < MaxJobs
    /\ Commit(getStyleForCustomStyleEffect(Program, r, p))
    /\ UNCHANGED << HostVars, transformFn, validateFn, validations >>

\* ---------------------------------------------------------------- spec
\* The page of the main specification: s1 carries two attributes and was
\* cloned by the HTMLImports polyfill into an applied element with a stale
\* id; s2 has neither attributes nor an applied element.
PageAttributes ==
    [s \in Styles |->
        IF s = "s1"
        THEN << [name |-> "id", value |-> "a"], [name |-> "class", value |-> "b"] >>
        ELSE <<>>]
PageAppliedElements ==
    [s \in Styles |->
        IF s = "s1"
        THEN [exists |-> TRUE, attrs |-> [NoAttributes EXCEPT !["id"] = "b"]]
        ELSE NoElement]

\* The state after module load and the construction of the registries regs.
Setup(regs) ==
    /\ customStyles = [r \in regs |-> <<>>]
    /\ enqueued = [r \in regs |-> FALSE]
    /\ seen = [p \in Providers |-> FALSE]
    /\ processed = [p \in Providers |-> FALSE]
    /\ readyPromise = Null
    /\ promisesCreated = 0
    /\ whenReady \in BOOLEAN
    /\ transformFn = Null
    /\ validateFn = Null
    /\ readyState = "loading"
    /\ listeners = 0
    /\ reactions = <<>>
    /\ microtasks = <<>>
    /\ handed = <<>>
    /\ getStyle = [w \in Wrappers |-> Null]
    /\ getStyleAdds = [w \in Wrappers |-> Null]
    /\ validations = <<>>
    /\ transformCount = [p \in Providers |-> [s \in Styles |-> 0]]
    /\ enqueueCalls = [r \in regs |-> 0]
    /\ skipped = {}
    /\ lastPass = NoPass

Init ==
    /\ Setup({"r1"})
    /\ attributes = PageAttributes
    /\ appliedElement = PageAppliedElements

Constructed == DOMAIN customStyles

Next ==
    \/ \E r \in Constructed : EnqueueDocumentValidation(r)
    \/ \E r \in Constructed, p \in Providers : AddCustomStyle(r, p)
    \/ \E r \in Constructed : FindStyles(r)
    \/ \E r \in Constructed, p \in Providers : GetStyleForCustomStyle(r, p)
    \/ \E fn \in Transforms \cup ReentrantTransforms \cup {Null} :
          SetTransformCallback(fn)
    \/ \E fn \in Validators \cup {Null} : SetValidateCallback(fn)
    \/ ReadyStateChange
    \/ RunMicrotask
    \/ WhenReadyFire
    \/ \E w \in Wrappers, s \in Styles \cup {Null} : SetGetStyle(w, s)
    \/ \E w \in Wrappers, p \in {LateProvider, Null} : SetGetStyleAdds(w, p)

Spec == Init /\ [][Next]_vars

\* The scheduling of the validator: every operation of a registry and every
\* event that drives the validator, on a page where no transform callback is
\* installed and the wrapper's getStyle() stays unresolved.
SchedNext ==
    \/ \E r \in Constructed : EnqueueDocumentValidation(r)
    \/ \E r \in Constructed, p \in Providers : AddCustomStyle(r, p)
    \/ \E r \in Constructed : FindStyles(r)
    \/ \E fn \in Validators \cup {Null} : SetValidateCallback(fn)
    \/ ReadyStateChange
    \/ RunMicrotask
    \/ WhenReadyFire

SchedSpec == Init /\ [][SchedNext]_vars

\* The processing of the styles: registration, findStyles passes, the
\* transform callback and the wrappers' getStyle(), on a page where no
\* validate callback is installed; the styles' attributes and applied
\* elements are drawn from the input sets.
StyleInit ==
    /\ Setup({"r1"})
    /\ whenReady = FALSE
    /\ attributes \in [Styles -> StyleAttributeInputs]
    /\ appliedElement \in [Styles -> AppliedElementInputs]

StyleNext ==
    \/ \E r \in Constructed, p \in Providers : AddCustomStyle(r, p)
    \/ \E r \in Constructed : FindStyles(r)
    \/ \E fn \in Transforms \cup {Null} : SetTransformCallback(fn)
    \/ \E w \in Wrappers, s \in Styles \cup {Null} : SetGetStyle(w, s)

StyleSpec == StyleInit /\ [][StyleNext]_vars

\* Two registries of one page without HTMLImports.whenReady, which share the
\* module's readiness promise: their direct enqueueDocumentValidation calls,
\* the validate callback and the events that drive the validator.
SharedInit ==
    /\ Setup({"r1", "r2"})
    /\ whenReady = FALSE
    /\ attributes = PageAttributes
    /\ appliedElement = PageAppliedElements

SharedNext ==
    \/ \E r \in Constructed : EnqueueDocumentValidation(r)
    \/ \E fn \in Validators \cup {Null} : SetValidateCallback(fn)
    \/ ReadyStateChange
    \/ RunMicrotask

SharedSpec == SharedInit /\ [][SharedNext]_vars

\* One registry of a page without HTMLImports.whenReady, with the guarantee of
\* the host's job queue: a promise job that is queued is eventually run.
FallbackInit ==
    /\ Init
    /\ whenReady = FALSE

FallbackNext ==
    \/ \E r \in Constructed : EnqueueDocumentValidation(r)
    \/ \E r \in Constructed, p \in Providers : AddCustomStyle(r, p)
    \/ \E fn \in Validators \cup {Null} : SetValidateCallback(fn)
    \/ ReadyStateChange
    \/ RunMicrotask

FairSpec == FallbackInit /\ [][FallbackNext]_vars /\ WF_vars(RunMicrotask)

\* Hosts whose callbacks call back into the registry: a transform callback
\* that calls findStyles or addCustomStyle, a getStyle() that calls
\* addCustomStyle; with every operation of the registry and the validate
\* callback, on a page without HTMLImports.whenReady.
ReentrantInit ==
    /\ Init
    /\ whenReady = FALSE

ReentrantNext ==
    \/ \E r \in Constructed : EnqueueDocumentValidation(r)
    \/ \E r \in Constructed, p \in Providers : AddCustomStyle(r, p)
    \/ \E r \in Constructed : FindStyles(r)
    \/ \E r \in Constructed, p \in Providers : GetStyleForCustomStyle(r, p)
    \/ \E fn \in Transforms \cup ReentrantTransforms \cup {Null} :
          SetTransformCallback(fn)
    \/ \E fn \in {"v1", Null} : SetValidateCallback(fn)
    \/ \E w \in Wrappers, s \in Styles \cup {Null} : SetGetStyle(w, s)
    \/ \E w \in Wrappers, p \in {LateProvider, Null} : SetGetStyleAdds(w, p)

ReentrantSpec == ReentrantInit /\ [][ReentrantNext]_vars

\* ---------------------------------------------------------------- claims
\* The readiness condition has occurred and every callback it released ran.
ReadinessServed ==
    IF whenReady
    THEN handed = <<>>
    ELSE readyState = "complete" /\ microtasks = <<>>

PendingJobs(r) ==
    JobsOf(handed, r) + JobsOf(reactions, r) + JobsOf(microtasks, r)

\* C1: however many times enqueueDocumentValidation ran for a registry
\* (directly or through addCustomStyle) with a validator configured, exactly
\* one validator invocation was scheduled for it, and once the readiness
\* condition has occurred the validator has been invoked exactly once.
C1_ExactlyOneInvocation ==
    \A r \in Constructed :
        /\ enqueued[r] <=> enqueueCalls[r] >= 1
        /\ PendingJobs(r) + Invocations(r) = (IF enqueued[r] THEN 1 ELSE 0)
        /\ (enqueued[r] /\ ReadinessServed) => Invocations(r) = 1

\* Several enqueue calls preceded the single invocation.
C1_Witness ==
    \E r \in Constructed :
        /\ enqueueCalls[r] >= 2
        /\ Len(customStyles[r]) >= 1
        /\ ReadinessServed
        /\ Invocations(r) = 1

\* Transform invocations whose resolved style is s, over all providers.
TransformsOfStyle(s) == SumOver([p \in Providers |-> transformCount[p][s]], Providers)

\* C2: over any sequence of addCustomStyle and findStyles calls the transform
\* callback is invoked at most once per distinct style element, also when
\* several registered providers resolve to the same style element.
C2_OncePerStyle ==
    \A s \in Styles : TransformsOfStyle(s) <= 1

\* C3: every provider appears at most once in the customStyles of the
\* registries, and an addCustomStyle call with a provider that is already
\* seen changes neither customStyles nor enqueued.
StoredOnce ==
    \A p \in Providers :
        Cardinality({ <<r, i>> \in Constructed \X (1..Cardinality(Providers) + 1) :
                        i <= Len(customStyles[r]) /\ customStyles[r][i] = p }) <= 1

C3_IdempotentRegistration ==
    /\ StoredOnce
    /\ \A r \in Constructed, p \in Providers :
          seen[p] =>
            LET after == addCustomStyle(Program, r, p)
            IN  /\ after.customStyles = customStyles
                /\ after.enqueued = enqueued

\* A provider is stored and an addCustomStyle call with it can be made again
\* while a validator is configured and the registry is not yet enqueued.
C3_Witness ==
    \E r \in Constructed, p \in Providers :
        /\ seen[p]
        /\ customStyles[r] # <<>> /\ customStyles[r][1] = p
        /\ validateFn # Null
        /\ ~enqueued[r]

\* The jobs of registry r in queue q that were enqueued before the document
\* was complete.
Deferred(q, r) == { i \in 1..Len(q) : q[i].reg = r /\ ~q[i].loaded }

\* C4: with no HTMLImports.whenReady and a document that is not complete at
\* enqueue time, the validator is neither invoked nor made runnable before the
\* listener has seen readyState "complete"; after that it is invoked exactly
\* once, whatever readystatechange events follow.
C4_DeferredValidation ==
    ~whenReady =>
      \A r \in Constructed :
        LET held == Deferred(reactions, r)
            runnable == Deferred(microtasks, r)
            ran == Deferred(validations, r)
        IN  /\ readyState # "complete" => (ran = {} /\ runnable = {})
            /\ ran # {} => (readyPromise = "resolved" /\ listeners = 1)
            /\ Cardinality(ran) <= 1
            /\ (held \cup runnable \cup ran # {}
                  /\ readyState = "complete" /\ microtasks = <<>>)
                => Cardinality(ran) = 1

\* A validation enqueued while the document was loading has run.
C4_Witness ==
    /\ ~whenReady
    /\ \E r \in Constructed : Deferred(validations, r) # {}
    /\ \A i \in 1..Len(validations) : validations[i].via = "promise"

\* C6: the enqueued flag, once set, is never reset, a registry has at most
\* one validator invocation scheduled over its lifetime, and adding a style
\* after the validator ran schedules nothing.
EnqueuedNeverReset ==
    \A r \in Constructed : enqueued[r] => enqueued'[r]

ScheduledAtMostOnce ==
    \A r \in Constructed :
        /\ PendingJobs(r) + Invocations(r) <= 1
        /\ Invocations(r) = 1 =>
              \A p \in Providers :
                LET after == addCustomStyle(Program, r, p)
                IN  /\ after.enqueued[r]
                    /\ after.handed = handed
                    /\ after.reactions = reactions
                    /\ after.microtasks = microtasks

C6_SingleValidation == [] ScheduledAtMostOnce /\ [][EnqueuedNeverReset]_vars

\* A style was added after the validator ran, with a validator configured.
C6_Witness ==
    \E r \in Constructed :
        /\ Invocations(r) = 1
        /\ validations[1].stored < Len(customStyles[r])
        /\ validateFn # Null
        /\ PendingJobs(r) = 0

\* C7: enqueueDocumentValidation changes nothing when the registry is already
\* enqueued or no validate callback is configured (the flag, the callbacks
\* handed to whenReady, the readiness promise, its listener and its jobs all
\* stay as they are); a registry left not enqueued by such a call is
\* scheduled by a call made once a validator is configured.
SchedulingState(S) ==
    << S.enqueued, S.handed, S.readyPromise, S.listeners, S.reactions,
       S.microtasks, S.customStyles, S.seen, S.processed >>

C7_EnqueueNoOp ==
    \A r \in Constructed :
        LET after == enqueueDocumentValidation(Program, r)
        IN  IF enqueued[r] \/ validateFn = Null
            THEN SchedulingState(after) = SchedulingState(Program)
            ELSE /\ after.enqueued[r]
                 /\ Len(after.handed) + Len(after.reactions) + Len(after.microtasks)
                      = Len(handed) + Len(reactions) + Len(microtasks) + 1

\* A style was registered (and so enqueueDocumentValidation called) while no
\* validator was configured; one is configured now.
C7_Witness ==
    \E r \in Constructed :
        /\ customStyles[r] # <<>>
        /\ ~enqueued[r]
        /\ validateFn # Null

\* C10: a validation once enqueued is never withdrawn: whatever is called
\* afterwards, the job scheduled at enqueue time stays scheduled until it is
\* invoked, and it has been invoked once the readiness condition has occurred.
JobKey(j) == [fn |-> j.fn, reg |-> j.reg, loaded |-> j.loaded]

PendingKeys ==
    { JobKey(handed[i]) : i \in 1..Len(handed) }
      \cup { JobKey(reactions[i]) : i \in 1..Len(reactions) }
      \cup { JobKey(microtasks[i]) : i \in 1..Len(microtasks) }

RanKeys == { JobKey(validations[i]) : i \in 1..Len(validations) }

NotWithdrawn == \A k \in PendingKeys : k \in PendingKeys' \cup RanKeys'

NothingLeftWaiting ==
    \A r \in Constructed :
        /\ enqueued[r] => PendingJobs(r) + Invocations(r) >= 1
        /\ (enqueued[r] /\ ReadinessServed) => Invocations(r) >= 1
        /\ (~whenReady /\ readyState = "complete") => JobsOf(reactions, r) = 0

C10_NoCancellation == [] NothingLeftWaiting /\ [][NotWithdrawn]_vars

\* A validator ran although the validate callback had been cleared after the
\* enqueue and before the run.
C10_Witness ==
    \E i \in 1..Len(validations) :
        /\ validations[i].fn \in Validators
        /\ validations[i].current = Null

\* The entries of a pass log that concern provider p.
EntriesOf(log, p) == { i \in 1..Len(log) : log[i].provider = p }

\* C5: in a findStyles pass, a stored provider whose getStyle() returns
\* nothing is not marked processed and the transform callback is not invoked
\* for it; a stored, unprocessed provider (in particular one that an earlier
\* pass skipped) whose getStyle() returns a style is marked processed and,
\* when a transform callback is configured, the callback is invoked for it
\* once, with that style.
C5_UnresolvedProvider ==
    \A r \in Constructed :
        LET after == findStyles(Program, r)
        IN  \A p \in Range(customStyles[r]) :
              ~processed[p] =>
                LET style == getStyleForCustomStyle(p)
                    calls == EntriesOf(after.pass.calls, p)
                IN  IF style = Null
                    THEN /\ ~after.processed[p]
                         /\ calls = {}
                         /\ after.transformCount[p] = transformCount[p]
                    ELSE /\ after.processed[p]
                         /\ transformFn # Null =>
                               /\ Cardinality(calls) = 1
                               /\ \A i \in calls : after.pass.calls[i].style = style

\* A provider that an earlier pass found unresolved was processed and
\* transformed by the pass just made.
C5_Witness ==
    \E p \in skipped :
        /\ processed[p]
        /\ EntriesOf(lastPass.calls, p) # {}

\* C8: after a findStyles pass, every attribute of a style processed in the
\* pass that has an applied element is present on the applied element with
\* the value it has on the style; the pass changes no other applied element
\* and creates none.
C8_AttributePropagation ==
    \A r \in Constructed :
        LET after == findStyles(Program, r)
        IN  \A s \in Styles :
              IF appliedElement[s].exists
                 /\ \E i \in 1..Len(after.pass.processed) :
                       after.pass.processed[i].style = s
              THEN /\ after.appliedElement[s].exists
                   /\ \A i \in 1..Len(attributes[s]) :
                         after.appliedElement[s].attrs[attributes[s][i].name]
                           = attributes[s][i].value
              ELSE after.appliedElement[s] = appliedElement[s]

\* The pass just made processed a style that has two attributes and an
\* applied element, which now carries both.
C8_Witness ==
    \E i \in 1..Len(lastPass.processed) :
        LET s == lastPass.processed[i].style
        IN  /\ appliedElement[s].exists
            /\ Len(attributes[s]) = 2
            /\ appliedElement[s].attrs = [id |-> "a", class |-> "b"]

\* The stored providers a pass starting now processes, in stored order.
RECURSIVE Eligible(_)
Eligible(cs) ==
    IF cs = <<>> THEN <<>>
    ELSE IF ~processed[Head(cs)] /\ getStyleForCustomStyle(Head(cs)) # Null
         THEN <<Head(cs)>> \o Eligible(Tail(cs))
         ELSE Eligible(Tail(cs))

\* C9: a findStyles pass visits every stored entry once, in the order the
\* providers were added, and invokes the transform callback for the newly
\* processed entries in that order.
C9_ProcessingOrder ==
    \A r \in Constructed :
        LET after == findStyles(Program, r)
            calls == after.pass.calls
            done == after.pass.processed
        IN  /\ after.pass.visited = customStyles[r]
            /\ [i \in 1..Len(done) |-> done[i].provider] = Eligible(customStyles[r])
            /\ [i \in 1..Len(calls) |-> calls[i].provider]
                 = (IF transformFn # Null THEN Eligible(customStyles[r]) ELSE <<>>)

\* The pass just made transformed three entries, and the first stored entry
\* is the wrapper.
C9_Witness ==
    /\ Len(lastPass.calls) = 3
    /\ lastPass.visited[1] \in Wrappers

\* C11: for every entry a findStyles pass newly processes while a transform
\* callback is configured, the callback receives the applied element of the
\* resolved style when there is one and the resolved style itself otherwise;
\* it never receives a getStyle wrapper.
C11_TransformTarget ==
    \A r \in Constructed :
        LET after == findStyles(Program, r)
            calls == after.pass.calls
        IN  \A i \in 1..Len(calls) :
              LET p == calls[i].provider
                  style == getStyleForCustomStyle(p)
              IN  /\ style \in Styles
                  /\ calls[i].style = style
                  /\ calls[i].target.of = style
                  /\ calls[i].target.of \notin Wrappers
                  /\ calls[i].target.element =
                        (IF appliedElement[style].exists THEN "applied" ELSE "style")

\* The pass just made transformed, for a wrapper, the applied element of the
\* style it resolved to, and for another entry a style without one.
C11_Witness ==
    /\ \E i \in 1..Len(lastPass.calls) :
          /\ lastPass.calls[i].provider \in Wrappers
          /\ lastPass.calls[i].target.element = "applied"
    /\ \E i \in 1..Len(lastPass.calls) :
          lastPass.calls[i].target.element = "style"

\* C12: when HTMLImports.whenReady is available, every enqueue hands the
\* validator to it exactly once, every validator invocation is made by that
\* scheduler, and the registry creates no readiness promise, registers no
\* readystatechange listener and queues no promise job.
C12_SchedulerPath ==
    whenReady =>
      /\ readyPromise = Null
      /\ listeners = 0
      /\ reactions = <<>>
      /\ microtasks = <<>>
      /\ \A i \in 1..Len(validations) : validations[i].via = "whenReady"
      /\ \A r \in Constructed :
            /\ JobsOf(handed, r) + Invocations(r) = (IF enqueued[r] THEN 1 ELSE 0)
            /\ (~enqueued[r] /\ validateFn # Null) =>
                  LET after == enqueueDocumentValidation(Program, r)
                  IN  /\ Len(after.handed) = Len(handed) + 1
                      /\ after.handed[Len(after.handed)].fn = validateFn
                      /\ after.readyPromise = Null
                      /\ after.listeners = 0

\* The scheduler invoked the validator of a registry that stores a style
\* while the document was still loading.
C12_Witness ==
    /\ whenReady
    /\ readyState = "loading"
    /\ Len(validations) = 1
    /\ validations[1].via = "whenReady"
    /\ customStyles[validations[1].reg] # <<>>

\* C13: without HTMLImports.whenReady the readiness promise is constructed at
\* most once and at most one readystatechange listener is registered, however
\* many enqueue calls of whichever registry take this path; all the waiting
\* validators are released together by the one transition to "complete".
C13_MemoizedWait ==
    ~whenReady =>
      /\ promisesCreated <= 1
      /\ listeners <= 1
      /\ (readyPromise = Null) <=> (promisesCreated = 0)
      /\ reactions # <<>> => (readyPromise = "pending" /\ readyState # "complete")
      /\ readyPromise = "resolved" => (reactions = <<>> /\ readyState = "complete")
      /\ \A r \in Constructed :
            readyPromise # Null =>
              LET after == enqueueDocumentValidation(Program, r)
              IN  /\ after.promisesCreated = promisesCreated
                  /\ after.listeners = listeners
                  /\ after.readyPromise = readyPromise

\* The validators of two registries, both enqueued before the document was
\* complete, ran on the one promise and the one listener.
C13_Witness ==
    /\ ~whenReady
    /\ promisesCreated = 1
    /\ listeners = 1
    /\ Len(validations) = 2
    /\ validations[1].reg # validations[2].reg
    /\ ~validations[1].loaded /\ ~validations[2].loaded

\* C14: without HTMLImports.whenReady, once a registry is enqueued and the
\* document is complete (it was at enqueue time, or has become so since), the
\* validator is eventually invoked.
C14_EventuallyValidated ==
    \A r \in Registries :
        (r \in Constructed /\ enqueued[r] /\ readyState = "complete")
          ~> (r \in Constructed /\ Invocations(r) = 1)

\* A validator enqueued when the document was already complete has run.
C14_Witness ==
    \E i \in 1..Len(validations) :
        /\ validations[i].loaded
        /\ validations[i].via = "promise"
        /\ listeners = 0

\* C16: when the transform callback calls findStyles of the iterating
\* registry, a findStyles pass still invokes the callback once for every
\* entry it newly processes and never for an entry that was processed before
\* the pass or earlier in it; the nesting ends by itself.
C16_ReentrantFindStyles ==
    transformFn = "tFind" =>
      \A r \in Constructed :
          LET after == findStyles(Program, r)
              calls == after.pass.calls
              done == after.pass.processed
          IN  /\ ~after.pass.overflow
              /\ after.pass.deepest <= Len(calls)
              /\ \A p \in Providers :
                    /\ Cardinality(EntriesOf(calls, p)) <= 1
                    /\ Cardinality(EntriesOf(done, p)) <= 1
                    /\ EntriesOf(calls, p) = EntriesOf(done, p)
                    /\ processed[p] =>
                          /\ EntriesOf(calls, p) = {}
                          /\ after.transformCount[p] = transformCount[p]
              /\ \A i \in 1..Len(Eligible(customStyles[r])) :
                    Cardinality(EntriesOf(calls, Eligible(customStyles[r])[i])) = 1

\* A pass with a callback that calls findStyles has just processed three
\* entries, each in a call nested in the callback of the one before.
C16_Witness ==
    /\ transformFn = "tFind"
    /\ lastPass.deepest >= 2
    /\ Len(lastPass.calls) = 3
    /\ \A p \in Providers : processed[p]

\* A findStyles pass starting now on r runs a callback that registers
\* LateProvider: the transform callback of an entry it processes, or the
\* getStyle() of an unprocessed wrapper.
Registers(r) ==
    \/ transformFn = "tAdd" /\ Eligible(customStyles[r]) # <<>>
    \/ \E p \in Range(customStyles[r]) \cap Wrappers :
          ~processed[p] /\ getStyleAdds[p] = LateProvider

\* C17: when a callback run by a findStyles pass registers a provider that
\* was not registered and resolves, the provider is appended to the sequence
\* and processed in that same pass, after every entry stored before it; when
\* a transform callback is configured it is invoked for it, last.
C17_RegistrationDuringPass ==
    \A r \in Constructed :
        (Registers(r) /\ ~seen[LateProvider]) =>
          LET after == findStyles(Program, r)
              calls == after.pass.calls
              done == after.pass.processed
          IN  /\ after.pass.added = <<LateProvider>>
              /\ after.customStyles[r] = Append(customStyles[r], LateProvider)
              /\ after.pass.visited = after.customStyles[r]
              /\ after.seen[LateProvider]
              /\ after.processed[LateProvider]
              /\ EntriesOf(done, LateProvider) = {Len(done)}
              /\ \A p \in Range(Eligible(customStyles[r])) :
                    \E i \in 1..(Len(done) - 1) : done[i].provider = p
              /\ transformFn # Null => EntriesOf(calls, LateProvider) = {Len(calls)}

\* The pass just made ran over two stored entries; the callback of the first
\* registered a third, which the pass processed last.
C17_Witness ==
    /\ transformFn = "tAdd"
    /\ lastPass.added = <<LateProvider>>
    /\ Len(lastPass.visited) = 3
    /\ Len(lastPass.calls) = 3
    /\ lastPass.calls[3].provider = LateProvider

IsPrefix(a, b) == Len(a) <= Len(b) /\ SubSeq(b, 1, Len(a)) = a

\* What the operations, called now, do to the sequences: enqueue changes
\* none; addCustomStyle appends the provider to the sequence of its registry
\* or changes none; findStyles and getStyleForCustomStyle write none
\* themselves: the sequence differs after them only by what addCustomStyle
\* calls made by a host callback appended.
SequenceFrame ==
    \A r \in Constructed :
        /\ enqueueDocumentValidation(Program, r).customStyles = customStyles
        /\ \A p \in Providers :
              /\ addCustomStyle(Program, r, p).customStyles =
                    (IF seen[p] THEN customStyles
                     ELSE [customStyles EXCEPT ![r] = Append(@, p)])
              /\ getStyleForCustomStyleEffect(Program, r, p).customStyles =
                    (IF p \in Wrappers /\ getStyleAdds[p] # Null
                     THEN addCustomStyle(Program, r, getStyleAdds[p]).customStyles
                     ELSE customStyles)
        /\ LET after == findStyles(Program, r)
           IN  /\ after.customStyles =
                     [customStyles EXCEPT ![r] = @ \o after.pass.added]
               /\ ~Registers(r) => after.pass.added = <<>>

GrowsAtTheEnd ==
    \A r \in Constructed : IsPrefix(customStyles[r], customStyles'[r])

\* C15: no operation removes or reorders entries of customStyles: the
\* sequence of a state is a prefix of the sequence of every later state;
\* enqueueDocumentValidation leaves it unchanged, addCustomStyle only appends
\* at the end, findStyles and getStyleForCustomStyle do not write it.
C15_AppendOnly == [] SequenceFrame /\ [][GrowsAtTheEnd]_vars

\* Three providers are stored, the validation is enqueued and a pass just
\* ran over the three.
C15_Witness ==
    /\ Len(customStyles["r1"]) = 3
    /\ enqueued["r1"]
    /\ Len(lastPass.visited) = 3

NoLaterTransform ==
    \A p \in Providers :
        processed[p] => (processed'[p] /\ transformCount'[p] = transformCount[p])

ProcessedWithoutHook ==
    \A r \in Constructed :
        LET after == findStyles(Program, r)
        IN  \A p \in Range(customStyles[r]) :
              /\ (transformFn = Null /\ ~processed[p]
                    /\ getStyleForCustomStyle(p) # Null) =>
                    /\ after.processed[p]
                    /\ after.transformCount[p] = transformCount[p]
              /\ processed[p] =>
                    /\ after.processed[p]
                    /\ EntriesOf(after.pass.calls, p) = {}
                    /\ after.transformCount[p] = transformCount[p]

\* C18: an entry whose style resolves in a findStyles pass made while no
\* transform callback is configured is marked processed without a callback
\* invocation; a processed entry stays processed and no later step (a pass
\* made after a callback was configured included) invokes the callback for
\* it.
C18_ProcessedWithoutHookIsFinal == [] ProcessedWithoutHook /\ [][NoLaterTransform]_vars

\* An entry processed without a hook was visited again by the pass just
\* made, which invoked the configured callback for another entry and not
\* for it.
C18_Witness ==
    \E p \in Providers :
        /\ processed[p]
        /\ \A s \in Styles : transformCount[p][s] = 0
        /\ transformFn \in Transforms
        /\ p \in Range(lastPass.visited)
        /\ lastPass.calls # <<>>

\* A call of enqueueDocumentValidation that sets the flag schedules one job
\* for the registry, which holds the validate callback configured now.
CapturedAtEnqueue ==
    \A r \in Constructed :
        (~enqueued[r] /\ validateFn # Null) =>
          LET after == enqueueDocumentValidation(Program, r)
              queued == after.handed \o after.reactions \o after.microtasks
          IN  /\ after.enqueued[r]
              /\ { JobKey(queued[i]) : i \in { n \in 1..Len(queued) : queued[n].reg = r } }
                   = { [fn |-> validateFn, reg |-> r,
                        loaded |-> (readyState = "complete")] }

\* Every step: a validator that is invoked is the one a job waiting before
\* the step holds; a job that waits after the step waited before it with the
\* same function or was scheduled by the step with the callback configured
\* before it; setting validateCallback invokes nothing.
InvokedIsCaptured ==
    /\ Len(validations') > Len(validations) =>
          /\ Len(validations') = Len(validations) + 1
          /\ JobKey(validations'[Len(validations')]) \in PendingKeys
    /\ \A k \in PendingKeys' :
          k \in PendingKeys \/ (k.fn = validateFn /\ ~enqueued[k.reg])
    /\ validateFn' # validateFn => validations' = validations

\* C19: the function invoked when readiness occurs is the validate callback
\* that was configured when enqueueDocumentValidation set the flag; replacing
\* validateCallback afterwards changes no waiting job and invokes nothing.
C19_CapturedValidator == [] CapturedAtEnqueue /\ [][InvokedIsCaptured]_vars

\* Validator v1 ran while v2 was the configured callback.
C19_Witness ==
    \E i \in 1..Len(validations) :
        /\ validations[i].fn = "v1"
        /\ validations[i].current = "v2"

\* C20: with a single registry, every stored provider carries the seen
\* marker, and every provider that carries the processed marker carries the
\* seen marker and is stored.
C20_MarkerConsistency ==
    Cardinality(Constructed) = 1 =>
      \A r \in Constructed : \A p \in Providers :
          /\ p \in Range(customStyles[r]) => seen[p]
          /\ processed[p] => (seen[p] /\ p \in Range(customStyles[r]))

\* One stored provider is processed, another is stored and not processed
\* (its getStyle() returned nothing), a third was never registered.
C20_Witness ==
    /\ \E p \in Range(customStyles["r1"]) : processed[p]
    /\ \E p \in Range(customStyles["r1"]) \cap skipped : ~processed[p]
    /\ \E p \in Providers : ~seen[p]
    /\ lastPass.reg = "r1"

====
